---- MODULE Spec2Model ----
(***************************************************************************)
(* Model of discord-player-applemusic: the link classifier (helper.ts),    *)
(* the page fetcher, duration normaliser and the four extractors           *)
(* (AppleMusicAPI.ts) and the extractor facade (AppleMusicExtractor.ts).   *)
(*                                                                         *)
(* Strings that the code inspects character by character (queries, links,  *)
(* durations, track urls) are sequences of one-character strings.  Field   *)
(* values that are only copied are TLA+ strings.  The JavaScript value     *)
(* undefined is the string UNDEFINED, null is the string NULL.             *)
(***************************************************************************)
EXTENDS Integers, Sequences, FiniteSets, TLC

VARIABLES pc, op, arg, calls, threw, ret, streamFn, protocols, options, activated

vars == <<pc, op, arg, calls, threw, ret, streamFn, protocols, options, activated>>

(***************************************************************************)
(* Bounds of the model.                                                    *)
(***************************************************************************)
MaxTail == 2
MaxDurTokens == 3

(***************************************************************************)
(* Character classes and string helpers.                                   *)
(***************************************************************************)
Digit == {"0", "1", "2", "3", "4", "5", "6", "7", "8", "9"}

Lower == {"a", "b", "c", "d", "e", "f", "g", "h", "i", "j", "k", "l", "m",
          "n", "o", "p", "q", "r", "s", "t", "u", "v", "w", "x", "y", "z"}

Upper == {"A", "B", "C", "D", "E", "F", "G", "H", "I", "J", "K", "L", "M",
          "N", "O", "P", "Q", "R", "S", "T", "U", "V", "W", "X", "Y", "Z"}

AlNum == Lower \cup Upper \cup Digit

RECURSIVE Str(_)
Str(cs) == IF cs = <<>> THEN "" ELSE cs[1] \o Str(Tail(cs))

RECURSIVE Concat(_)
Concat(parts) == IF parts = <<>> THEN <<>> ELSE parts[1] \o Concat(Tail(parts))

RECURSIVE SeqsUpTo(_, _)
SeqsUpTo(S, n) ==
    IF n = 0 THEN {<<>>}
    ELSE LET shorter == SeqsUpTo(S, n - 1)
         IN  shorter \cup {Append(t, x) : t \in shorter, x \in S}

(***************************************************************************)
(* Regular expressions, by their denotation: a pattern maps the set P of   *)
(* positions a match may have reached to the set it may reach next.        *)
(* Position p means that s[1..p-1] is consumed.  test() asks for the       *)
(* existence of a match, which does not depend on greedy or lazy           *)
(* quantifiers.                                                            *)
(***************************************************************************)
AtLit(s, p, lit) ==
    /\ p + Len(lit) - 1 <= Len(s)
    /\ SubSeq(s, p, p + Len(lit) - 1) = lit

Lit(s, P, lit) == {p + Len(lit) : p \in {q \in P : AtLit(s, q, lit)}}

OptLit(s, P, lit) == P \cup Lit(s, P, lit)

\* membership of a character in a class: "." (any but a line terminator),
\* [0-9], [a-zA-Z0-9], [.,]
InClass(c, class) ==
    CASE class = "dot" -> c \notin {"\n", "\r"}
      [] class = "digit" -> c \in Digit
      [] class = "alnum" -> c \in AlNum
      [] class = "sep" -> c \in {".", ","}

\* C+ for a character class C
ClassPlus(s, P, class) ==
    {q \in 2..(Len(s) + 1) : \E p \in P : p < q /\ \A k \in p..(q - 1) : InClass(s[k], class)}

DotPlus(s, P) == ClassPlus(s, P, "dot")

AtEnd(s, P) == (Len(s) + 1) \in P

L_http == <<"h", "t", "t", "p">>
L_s == <<"s">>
L_host == <<":", "/", "/", "m", "u", "s", "i", "c", ".", "a", "p", "p", "l", "e", ".", "c", "o", "m", "/">>
L_slash == <<"/">>
L_song == <<"s", "o", "n", "g">>
L_album == <<"a", "l", "b", "u", "m">>
L_playlist == <<"p", "l", "a", "y", "l", "i", "s", "t">>
L_qi == <<"?", "i", "=">>
L_pl == <<"p", "l", ".">>
L_u == <<"u", "-">>
L_pm == <<"p", "m", "-">>

\* ^https?:\/\/music\.apple\.com\/
StoreHost(s) == Lit(s, OptLit(s, Lit(s, {1}, L_http), L_s), L_host)

\* /^https?:\/\/music\.apple\.com\/.+?\/(song|album)\/.+?(\/.+?\?i=|\/)([0-9]+)$/
appleMusicSongRegex(s) ==
    LET a == Lit(s, DotPlus(s, StoreHost(s)), L_slash)
        b == Lit(s, Lit(s, a, L_song) \cup Lit(s, a, L_album), L_slash)
        c == DotPlus(s, b)
        d == Lit(s, DotPlus(s, Lit(s, c, L_slash)), L_qi) \cup Lit(s, c, L_slash)
    IN  AtEnd(s, ClassPlus(s, d, "digit"))

\* /^https?:\/\/music\.apple\.com\/.+?\/album\/.+\/([0-9]+)$/
appleMusicAlbumRegex(s) ==
    LET a == Lit(s, DotPlus(s, StoreHost(s)), L_slash)
        b == Lit(s, Lit(s, a, L_album), L_slash)
        c == Lit(s, DotPlus(s, b), L_slash)
    IN  AtEnd(s, ClassPlus(s, c, "digit"))

\* /^https?:\/\/music\.apple\.com\/.+?\/playlist\/.+\/pl\.(u-|pm-)?[a-zA-Z0-9]+$/
appleMusicPlaylistRegex(s) ==
    LET a == Lit(s, DotPlus(s, StoreHost(s)), L_slash)
        b == Lit(s, Lit(s, a, L_playlist), L_slash)
        c == Lit(s, Lit(s, DotPlus(s, b), L_slash), L_pl)
        d == c \cup Lit(s, c, L_u) \cup Lit(s, c, L_pm)
    IN  AtEnd(s, ClassPlus(s, d, "alnum"))

(***************************************************************************)
(* isUrl: new URL(url) succeeds.  The URL parser needs a scheme (a letter, *)
(* then letters, digits, "+", "-", "." up to the first ":"); for the       *)
(* special schemes it skips the slashes after the colon and needs a        *)
(* non-empty host made of host characters, ended by "/", "?", "#" or the   *)
(* end of the string.  A string with no scheme has no base to resolve      *)
(* against and is rejected.                                                *)
(***************************************************************************)
SchemeChar == AlNum \cup {"+", "-", "."}

SpecialSchemes == {"http", "https", "ftp", "ws", "wss"}

HostChar == AlNum \cup {"-", "."}

RECURSIVE SkipSlashes(_, _)
SkipSlashes(s, p) ==
    IF p <= Len(s) /\ s[p] \in {"/", "\\"} THEN SkipSlashes(s, p + 1) ELSE p

RECURSIVE HostEnd(_, _)
HostEnd(s, p) ==
    IF p <= Len(s) /\ s[p] \notin {"/", "\\", "?", "#"} THEN HostEnd(s, p + 1) ELSE p

isUrl(s) ==
    \E c \in 2..Len(s) :
        /\ s[c] = ":"
        /\ s[1] \in Lower \cup Upper
        /\ \A k \in 1..(c - 1) : s[k] \in SchemeChar
        /\ Str(SubSeq(s, 1, c - 1)) \in SpecialSchemes =>
               LET h == SkipSlashes(s, c + 1)
                   e == HostEnd(s, h)
               IN  /\ e > h
                   /\ \A k \in h..(e - 1) : s[k] \in HostChar

(***************************************************************************)
(* The queries the operations are called with: a head (storefront origin,  *)
(* another origin, an opaque-scheme URL, or nothing), the storefront, the  *)
(* kind of page, a slug and a bounded tail of link fragments.              *)
(***************************************************************************)
Heads ==
    { L_http \o L_s \o L_host,
      L_http \o L_host,
      L_http \o <<":", "/", "/", "a", ".", "b", "/">>,
      <<"a", ":">>,
      <<>> }

Kinds ==
    { L_slash \o L_song \o L_slash,
      L_slash \o L_album \o L_slash,
      L_slash \o L_playlist \o L_slash,
      L_slash }

Slugs == { <<"x">>, <<>> }

TailTokens ==
    { <<"/", "1">>, L_qi \o <<"1">>, L_slash \o L_pl \o <<"a">>,
      L_slash \o L_pl \o L_u \o <<"a">>, <<"/", "a">> }

Queries ==
    { Concat(<<h, <<"u", "s">>, k, sl, Concat(t)>>) :
        h \in Heads, k \in Kinds, sl \in Slugs, t \in SeqsUpTo(TailTokens, MaxTail) }

(***************************************************************************)
(* AppleMusicExtractor.validate                                            *)
(***************************************************************************)
\* faulty variant: every() for some()
validateEvery(query) ==
    \/ ~isUrl(query)
    \/ \A matches \in {appleMusicAlbumRegex(query), appleMusicPlaylistRegex(query),
                       appleMusicSongRegex(query)} : matches

validate(query) ==
    \/ ~isUrl(query)
    \/ \E matches \in {appleMusicAlbumRegex(query), appleMusicPlaylistRegex(query),
                       appleMusicSongRegex(query)} : matches

(***************************************************************************)
(* parseDuration.  The pattern is                                          *)
(*   (-)?P(NUM Y)?(NUM M)?(NUM W)?(NUM D)?(T(NUM H)?(NUM M)?(NUM S)?)?     *)
(* with NUM = -?\d*[.,]?\d+, not anchored at either end.  exec() takes the *)
(* leftmost position where it matches; every group after "P" is optional   *)
(* and greedy and nothing follows them, so each group is taken exactly     *)
(* when it matches where the previous one ended.  A group ends at the      *)
(* first letter after its number, so it has at most one end position.      *)
(***************************************************************************)
ClassStar(s, P, class) == P \cup ClassPlus(s, P, class)

OptClass(s, P, class) == P \cup {p + 1 : p \in {q \in P : q <= Len(s) /\ InClass(s[q], class)}}

\* ((?<name>-?\d*[\.,]?\d+)unit)? : the positions after the group, from p
rUnit(s, p, unit) ==
    Lit(s, ClassPlus(s, OptClass(s, ClassStar(s, OptLit(s, {p}, <<"-">>), "digit"), "sep"),
                     "digit"),
        <<unit>>)

\* the captures of consecutive optional groups from p; undefined is <<>>
RECURSIVE Groups(_, _, _)
Groups(s, p, units) ==
    IF units = <<>> THEN <<>>
    ELSE LET g == rUnit(s, p, units[1])
         IN  IF g = {} THEN << <<>> >> \o Groups(s, p, Tail(units))
             ELSE LET e == CHOOSE x \in g : TRUE
                  IN  << SubSeq(s, p, e - 2) >> \o Groups(s, e, Tail(units))

\* the position after consecutive optional groups from p
RECURSIVE GroupsEnd(_, _, _)
GroupsEnd(s, p, units) ==
    IF units = <<>> THEN p
    ELSE LET g == rUnit(s, p, units[1])
         IN  IF g = {} THEN GroupsEnd(s, p, Tail(units))
             ELSE GroupsEnd(s, CHOOSE x \in g : TRUE, Tail(units))

DateUnits == <<"Y", "M", "W", "D">>

TimeUnits == <<"H", "M", "S">>

\* the positions where (?<negative>-)?P matches
DurationStarts(d) ==
    {i \in 1..Len(d) : d[i] = "P" \/ AtLit(d, i, <<"-", "P">>)}

\* regex.exec(d): matched, the position after the match, and the seven groups
\* years, months, weeks, days, hours, minutes, seconds
DurationExec(d) ==
    IF DurationStarts(d) = {} THEN [matched |-> FALSE, start |-> 0, end |-> 0, groups |-> <<>>]
    ELSE LET i == CHOOSE x \in DurationStarts(d) : \A y \in DurationStarts(d) : x <= y
             p0 == IF d[i] = "-" THEN i + 2 ELSE i + 1
             p4 == GroupsEnd(d, p0, DateUnits)
             hasT == p4 <= Len(d) /\ d[p4] = "T"
         IN  [ matched |-> TRUE,
               start |-> i,
               end |-> IF hasT THEN GroupsEnd(d, p4 + 1, TimeUnits) ELSE p4,
               groups |-> Groups(d, p0, DateUnits) \o
                          (IF hasT THEN Groups(d, p4 + 1, TimeUnits)
                           ELSE << <<>>, <<>>, <<>> >>) ]

\* .filter((item, i, a) => !!item || i > a.length - 2), with 0-based i = k - 1
RECURSIVE FilterDur(_, _)
FilterDur(dur, k) ==
    IF k > Len(dur) THEN <<>>
    ELSE IF dur[k] # <<>> \/ (k - 1) > Len(dur) - 2
         THEN <<dur[k]>> \o FilterDur(dur, k + 1)
         ELSE FilterDur(dur, k + 1)

padStart2(m) == IF Len(m) < 2 THEN <<"0">> \o m ELSE m

\* .map((m, i) => { if (!m) m = "0"; return i < 1 ? m : m.padStart(2, "0"); })
MapDur(kept) ==
    [k \in 1..Len(kept) |->
        LET m == IF kept[k] = <<>> THEN <<"0">> ELSE kept[k]
        IN  IF (k - 1) < 1 THEN m ELSE padStart2(m)]

RECURSIVE Join(_, _)
Join(parts, sep) ==
    IF parts = <<>> THEN <<>>
    ELSE IF Len(parts) = 1 THEN parts[1]
    ELSE parts[1] \o sep \o Join(Tail(parts), sep)

DefaultDuration == <<"0", ":", "0", "0">>

parseDuration(d) ==
    LET test == DurationExec(d)
    IN  IF ~test.matched THEN DefaultDuration
        ELSE LET joined == Join(MapDur(FilterDur(test.groups, 1)), <<":">>)
             IN  IF joined = <<>> THEN DefaultDuration ELSE joined

(***************************************************************************)
(* The durations parseDuration is applied to.                              *)
(***************************************************************************)
DurTokens ==
    { <<"P">>, <<"T">>, <<"-">>, <<"x">>, <<"1", "H">>, <<"2", "M">>, <<"5", "S">>,
      <<"0", "S">>, <<"1", "D">> }

DurExamples ==
    { <<"P", "T", "1", "H", "2", "M", "3", "S">>,
      <<"n", "o", "t", "-", "a", "-", "d", "u", "r", "a", "t", "i", "o", "n">>,
      <<"A", "P", "P", "L", "E">>,
      <<"x", "P", "T", "5", "S">>,
      <<"P", "1", "D", "T", "5", "S">>,
      <<"P", "T", "1", ".", "5", "S">>,
      <<"P", "T", "1", "2", "M", "0", "7", "S">> }

Durations == {Concat(t) : t \in SeqsUpTo(DurTokens, MaxDurTokens)} \cup DurExamples

(***************************************************************************)
(* JavaScript values that are only copied are TLA+ strings.                *)
(***************************************************************************)
UNDEFINED == "<undefined>"

NULL == "<null>"

Falsy(v) == v \in {UNDEFINED, NULL, ""}

\* a || b
Or(a, b) == IF Falsy(a) THEN b ELSE a

\* a ?? b
Coalesce(a, b) == IF a \in {UNDEFINED, NULL} THEN b ELSE a

Favicon == "https://music.apple.com/assets/favicon/favicon-180.png"

\* the collection fields of a result that is not a collection
NoInfo ==
    [ id |-> UNDEFINED, title |-> UNDEFINED, description |-> UNDEFINED,
      artwork |-> UNDEFINED, url |-> UNDEFINED, artist |-> UNDEFINED ]

(***************************************************************************)
(* getHTML: fetch(link).then(r => r.text()).then(txt => parse(txt),        *)
(* () => null).  The rejection handler of the last then() sees the         *)
(* rejections of fetch and of r.text(); what parse throws inside the       *)
(* fulfilment handler of the same then() rejects the returned promise.     *)
(* The result is "tree", "null" or "rejected".                             *)
(***************************************************************************)
Nets ==
    { [fetch |-> "fulfils", text |-> "fulfils", parse |-> "returns"],
      [fetch |-> "rejects", text |-> "fulfils", parse |-> "returns"],
      [fetch |-> "fulfils", text |-> "rejects", parse |-> "returns"],
      [fetch |-> "fulfils", text |-> "fulfils", parse |-> "throws"] }

getHTML(net) ==
    LET fetched == net.fetch
        body == IF fetched = "fulfils" THEN net.text ELSE "rejects"
    IN  IF body = "fulfils"
        THEN (IF net.parse = "returns" THEN "tree" ELSE "rejected")
        ELSE "null"

(***************************************************************************)
(* makeImage: url.replace("{w}", width).replace("{h}", height)             *)
(* .replace("{f}", ext).  The template is a sequence of chunks in which a  *)
(* placeholder is a chunk of its own; replace() with a string pattern      *)
(* substitutes the first occurrence only.                                  *)
(***************************************************************************)
RECURSIVE ReplaceFirst(_, _, _)
ReplaceFirst(chunks, token, value) ==
    IF chunks = <<>> THEN <<>>
    ELSE IF chunks[1] = token THEN <<value>> \o Tail(chunks)
    ELSE <<chunks[1]>> \o ReplaceFirst(Tail(chunks), token, value)

makeImage(url, width, height, ext) ==
    Str(ReplaceFirst(ReplaceFirst(ReplaceFirst(url, "{w}", ToString(width)),
                                  "{h}", ToString(height)),
                     "{f}", ext))

(***************************************************************************)
(* AppleMusic.search.  A results page is described by what the code looks  *)
(* up in it: serialized is the state of the #serialized-server-data        *)
(* element ("absent", "badJson": JSON.parse throws, "badShape": the parsed *)
(* value has no [0].data.sections, "noSection": no section of kind         *)
(* trackLockup, "noItems": that section has no items, "items"), items the  *)
(* items of the trackLockup section.                                       *)
(***************************************************************************)
FullItem ==
    [ contentDescriptor |-> "object", identifiers |-> "object", storeAdamID |-> "1",
      url |-> "https://music.apple.com/us/song/t/1", duration |-> "3:21", title |-> "t",
      artwork |-> "object", dictionary |-> "object",
      artUrl |-> <<"https://img/", "{w}", "x", "{h}", ".", "{f}">>, width |-> 100, height |-> 200,
      subtitleLinks |-> <<"Artist X">> ]

SearchItems ==
    { FullItem,
      [FullItem EXCEPT !.contentDescriptor = UNDEFINED],
      [FullItem EXCEPT !.identifiers = UNDEFINED],
      [FullItem EXCEPT !.storeAdamID = UNDEFINED],
      [FullItem EXCEPT !.url = UNDEFINED],
      [FullItem EXCEPT !.duration = UNDEFINED],
      [FullItem EXCEPT !.title = UNDEFINED],
      [FullItem EXCEPT !.artwork = UNDEFINED],
      [FullItem EXCEPT !.dictionary = UNDEFINED],
      [FullItem EXCEPT !.dictionary = "noUrl"],
      [FullItem EXCEPT !.subtitleLinks = <<>>],
      [FullItem EXCEPT !.subtitleLinks = <<UNDEFINED>>] }

SearchPages ==
    { [serialized |-> k, items |-> <<>>] :
        k \in {"absent", "badJson", "badShape", "noSection", "noItems", "items"} }
    \cup { [serialized |-> "items", items |-> <<it>>] : it \in SearchItems }
    \cup { [serialized |-> "items", items |-> <<FullItem, it>>] : it \in SearchItems }

\* whether mapping the item throws a TypeError: a property of undefined is read
SearchItemThrows(track) ==
    \/ track.contentDescriptor = UNDEFINED
    \/ track.identifiers = UNDEFINED
    \/ track.artwork # UNDEFINED /\ track.dictionary = "noUrl"

\* the object the map callback builds for one item
SearchTrack(track) ==
    [ id |-> track.storeAdamID,
      duration |-> Or(track.duration, "0:00"),
      title |-> track.title,
      url |-> track.url,
      thumbnail |-> IF track.artwork # UNDEFINED /\ track.dictionary # UNDEFINED
                    THEN makeImage(track.artUrl, track.width, track.height, "jpg")
                    ELSE Favicon,
      artist |-> Coalesce(IF track.subtitleLinks = <<>> THEN UNDEFINED
                          ELSE track.subtitleLinks[1], "Unknown Artist") ]

Tracks(list) == [kind |-> "tracks", text |-> "", tracks |-> list, info |-> NoInfo]

\* the whole body is inside try { } catch { return [] }; html is what
\* getHTML(url) gives
SearchResults(html, page) ==
    IF html = "rejected" THEN Tracks(<<>>)
    ELSE IF html = "null" THEN Tracks(<<>>)
    ELSE IF page.serialized = "absent" THEN Tracks(<<>>)
    ELSE IF page.serialized \in {"badJson", "badShape"} THEN Tracks(<<>>)
    ELSE IF page.serialized \in {"noSection", "noItems"} THEN Tracks(<<>>)
    ELSE IF \E k \in 1..Len(page.items) : SearchItemThrows(page.items[k]) THEN Tracks(<<>>)
    ELSE Tracks([k \in 1..Len(page.items) |-> SearchTrack(page.items[k])])

search(net, page) == SearchResults(getHTML(net), page)

(***************************************************************************)
(* String operations of the extractors.                                    *)
(***************************************************************************)
Includes(s, lit) == \E i \in 1..Len(s) : AtLit(s, i, lit)

IndexOf(s, lit) == CHOOSE i \in 1..Len(s) : AtLit(s, i, lit) /\ \A j \in 1..(i - 1) : ~AtLit(s, j, lit)

\* s.split(sep) for a non-empty separator
RECURSIVE Split(_, _)
Split(s, sep) ==
    IF ~Includes(s, sep) THEN <<s>>
    ELSE LET i == IndexOf(s, sep)
         IN  <<SubSeq(s, 1, i - 1)>> \o Split(SubSeq(s, i + Len(sep), Len(s)), sep)

\* arr[k] for a 0-based k where only the truthiness of the element is used:
\* undefined and "" are both <<>>
Elem(arr, k) == IF k + 1 <= Len(arr) THEN arr[k + 1] ELSE <<>>

\* arr.pop()
Pop(arr) == arr[Len(arr)]

LowerSeq ==
    <<"a", "b", "c", "d", "e", "f", "g", "h", "i", "j", "k", "l", "m",
      "n", "o", "p", "q", "r", "s", "t", "u", "v", "w", "x", "y", "z">>

UpperSeq ==
    <<"A", "B", "C", "D", "E", "F", "G", "H", "I", "J", "K", "L", "M",
      "N", "O", "P", "Q", "R", "S", "T", "U", "V", "W", "X", "Y", "Z">>

toUpperCase(c) ==
    IF c \in Lower THEN UpperSeq[CHOOSE i \in 1..Len(LowerSeq) : LowerSeq[i] = c] ELSE c

\* w.charAt(0).toUpperCase() + w.slice(1)
Capitalize(w) == IF w = <<>> THEN <<>> ELSE <<toUpperCase(w[1])>> \o Tail(w)

(***************************************************************************)
(* new URL(link): pathname and searchParams.get("i") of a link with an     *)
(* authority.  The path runs from the end of the host to the first "?" or  *)
(* "#"; the query from the first "?" to the first "#".                     *)
(***************************************************************************)
RECURSIVE PathEnd(_, _)
PathEnd(s, p) ==
    IF p <= Len(s) /\ s[p] \notin {"?", "#"} THEN PathEnd(s, p + 1) ELSE p

RECURSIVE QueryEnd(_, _)
QueryEnd(s, p) ==
    IF p <= Len(s) /\ s[p] # "#" THEN QueryEnd(s, p + 1) ELSE p

PathStart(link) == HostEnd(link, SkipSlashes(link, IndexOf(link, <<":">>) + 1))

pathname(link) ==
    LET e == PathStart(link)
        path == SubSeq(link, e, PathEnd(link, e) - 1)
    IN  IF path = <<>> THEN <<"/">> ELSE path

QueryString(link) ==
    LET q == PathEnd(link, PathStart(link))
    IN  IF q <= Len(link) /\ link[q] = "?" THEN SubSeq(link, q + 1, QueryEnd(link, q) - 1)
        ELSE <<>>

\* url.searchParams.get(name); null and "" are both <<>> (only tested with !id)
searchParamsGet(link, name) ==
    LET pairs == Split(QueryString(link), <<"&">>)
        hits == {k \in 1..Len(pairs) : Split(pairs[k], <<"=">>)[1] = name /\ pairs[k] # <<>>}
    IN  IF hits = {} THEN <<>>
        ELSE LET k == CHOOSE x \in hits : \A y \in hits : x <= y
             IN  SubSeq(pairs[k], Len(name) + 2, Len(pairs[k]))

(***************************************************************************)
(* AppleMusic.getSongInfo.  A song page is described by what the code      *)
(* looks up in it: metaTags (whether there is any meta element), the       *)
(* content of the named meta tags (UNDEFINED when the tag or its content   *)
(* is missing), the text of <title>, durationRaw (<<>> when missing), the  *)
(* apple:description tag and its textContent, the music:musician tag and   *)
(* its content, and the text of .song-subtitles__artists>a.                *)
(***************************************************************************)
L_albumSlash == L_album \o L_slash

L_duration == <<"D", "u", "r", "a", "t", "i", "o", "n", ":", " ">>

L_artist == <<"/", "a", "r", "t", "i", "s", "t", "/">>

FullSongPage ==
    [ metaTags |-> TRUE, appleTitle |-> "Song T", titleElement |-> "Page Title",
      contentId |-> "42", durationRaw |-> <<"P", "T", "3", "M", "2", "1", "S">>,
      descriptionTag |-> TRUE, description |-> <<>>,
      ogImage |-> "https://img/a.jpg",
      musicianTag |-> TRUE, musician |-> L_artist \o <<"a", "-", "b", "/", "5">>,
      subtitleArtist |-> "Sub Artist" ]

NoDurationPage == [FullSongPage EXCEPT !.durationRaw = <<>>]

SongPages ==
    { FullSongPage,
      [FullSongPage EXCEPT !.metaTags = FALSE],
      [FullSongPage EXCEPT !.appleTitle = UNDEFINED],
      [FullSongPage EXCEPT !.appleTitle = UNDEFINED, !.titleElement = UNDEFINED],
      [FullSongPage EXCEPT !.contentId = UNDEFINED],
      [FullSongPage EXCEPT !.durationRaw = <<"P", "T", "5", "S">>],
      NoDurationPage,
      [NoDurationPage EXCEPT !.descriptionTag = FALSE],
      [NoDurationPage EXCEPT !.description = <<"x">>],
      [NoDurationPage EXCEPT !.description = L_duration \o <<"3", ":", "2", "1", "\"", "x">>],
      [NoDurationPage EXCEPT !.description = L_duration],
      [FullSongPage EXCEPT !.ogImage = UNDEFINED],
      [FullSongPage EXCEPT !.musicianTag = FALSE],
      [FullSongPage EXCEPT !.musicianTag = FALSE, !.subtitleArtist = UNDEFINED],
      [FullSongPage EXCEPT !.musician = <<>>],
      [FullSongPage EXCEPT !.musician = <<"/", "x">>] }

L_albumPath == L_slash \o L_album \o L_slash

L_songPath == L_slash \o L_song \o L_slash

\* if/else if on url.pathname: the slug (name) and the identifier (id); idParam
\* is url.searchParams.get("i")
NameOf(path) ==
    IF Includes(path, L_albumPath)
    THEN Elem(Split(Elem(Split(path, L_albumSlash), 1), L_slash), 0)
    ELSE IF Includes(path, L_songPath)
    THEN Elem(Split(Elem(Split(path, L_songPath), 1), L_slash), 0)
    ELSE <<>>

IdOf(path, idParam) ==
    IF Includes(path, L_albumPath) THEN idParam
    ELSE IF Includes(path, L_songPath)
    THEN Elem(Split(Elem(Split(path, L_songPath), 1), L_slash), 1)
    ELSE <<>>

SongName(link) == NameOf(pathname(link))

SongId(link) == IdOf(pathname(link), searchParamsGet(link, <<"i">>))

songURL(name, id) == "https://music.apple.com/us/song/" \o Str(name) \o "/" \o Str(id)

\* metaTags.find(apple:description)?.textContent.split("Duration: ")?.[1].split("\"")?.[0]
\* reads .split of undefined when the text has no "Duration: " fragment
DescriptionThrows(page) ==
    page.descriptionTag /\ Len(Split(page.description, L_duration)) < 2

DescriptionDuration(page) ==
    IF ~page.descriptionTag THEN UNDEFINED
    ELSE Str(Split(Split(page.description, L_duration)[2], <<"\"">>)[1])

\* artistUrl.match(/\/artist\/([^/]+)/): the capture, <<>> when there is no match
ArtistSlug(artistUrl) ==
    IF ~Includes(artistUrl, L_artist) THEN <<>>
    ELSE LET hits == {i \in 1..Len(artistUrl) :
                        /\ AtLit(artistUrl, i, L_artist)
                        /\ i + Len(L_artist) <= Len(artistUrl)
                        /\ artistUrl[i + Len(L_artist)] # "/"}
         IN  IF hits = {} THEN <<>>
             ELSE LET i == CHOOSE x \in hits : \A y \in hits : x <= y
                  IN  Split(SubSeq(artistUrl, i + Len(L_artist), Len(artistUrl)), L_slash)[1]

TitleCase(words) == Str(Join([k \in 1..Len(words) |-> Capitalize(words[k])], <<" ">>))

ArtistFrom(page, slug) ==
    IF page.musicianTag /\ slug # <<>> THEN TitleCase(Split(slug, <<"-">>))
    ELSE Or(page.subtitleArtist, "Apple Music")

SongArtist(page) == ArtistFrom(page, ArtistSlug(page.musician))

Song(name, id, page) ==
    [ id |-> Or(page.contentId, Str(id)),
      duration |-> IF page.durationRaw # <<>> THEN Str(parseDuration(page.durationRaw))
                   ELSE Or(DescriptionDuration(page), "0:00"),
      title |-> Or(Or(Or(page.appleTitle, page.titleElement), Str(name)), "Unknown Title"),
      url |-> songURL(name, id),
      thumbnail |-> Or(page.ogImage, Favicon),
      artist |-> SongArtist(page) ]

Null == [kind |-> "null", text |-> "", tracks |-> <<>>, info |-> NoInfo]

Result(fetched, t, v) == [fetched |-> fetched, threw |-> t, ret |-> v]

\* the body of getSongInfo after the link is taken apart; html is what
\* getHTML(songURL) gives
SongInfo(name, id, html, page) ==
    IF id = <<>> \/ name = <<>> THEN Result(FALSE, FALSE, Null)
    ELSE IF html = "rejected" THEN Result(TRUE, TRUE, Null)
    ELSE IF html = "null" THEN Result(TRUE, FALSE, Null)
    ELSE IF ~page.metaTags THEN Result(TRUE, FALSE, Null)
    ELSE IF page.durationRaw = <<>> /\ DescriptionThrows(page) THEN Result(TRUE, FALSE, Null)
    ELSE Result(TRUE, FALSE,
                [kind |-> "track", text |-> "", tracks |-> <<Song(name, id, page)>>,
                 info |-> NoInfo])

getSongInfo(link, net, page) == SongInfo(SongName(link), SongId(link), getHTML(net), page)

(***************************************************************************)
(* JSON-LD track entries of album and playlist pages: url (urlDefined      *)
(* tells whether the entry has one), duration (<<>> when missing), name    *)
(* and, on playlists, byArtist.name (UNDEFINED when byArtist or its name   *)
(* is missing).                                                            *)
(***************************************************************************)
FullEntry ==
    [ urlDefined |-> TRUE, url |-> <<"a", "/", "7">>, duration |-> <<"P", "T", "3", "M", "5", "S">>,
      name |-> "Track N", byArtist |-> "By Artist" ]

Entries ==
    { FullEntry,
      [FullEntry EXCEPT !.urlDefined = FALSE, !.url = <<>>],
      [FullEntry EXCEPT !.url = <<"a", "/">>],
      [FullEntry EXCEPT !.url = <<>>],
      [FullEntry EXCEPT !.duration = <<>>],
      [FullEntry EXCEPT !.duration = <<"P", "T", "5", "S">>],
      [FullEntry EXCEPT !.name = UNDEFINED],
      [FullEntry EXCEPT !.byArtist = UNDEFINED] }

L_PT0S == <<"P", "T", "0", "S">>

Collection(t, d, art, u, a, i, list) ==
    [ kind |-> "collection", text |-> "", tracks |-> list,
      info |-> [id |-> i, title |-> t, description |-> d, artwork |-> art, url |-> u,
                artist |-> a] ]

(***************************************************************************)
(* AppleMusic.getPlaylistInfo.  A playlist page: the og:title,             *)
(* og:description and og:image tags (tag present, content or UNDEFINED),   *)
(* serialized (the #serialized-server-data script: "absent", "bad" when    *)
(* parsing or walking it throws, "ok") with artistNames, and jsonLd (the   *)
(* script#schema:music-playlist: "absent", "badJson", "null" when the JSON *)
(* text is null, "noTrack", "ok") with its track entries.                  *)
(***************************************************************************)
FullPlaylistPage ==
    [ titleTag |-> TRUE, title |-> "Playlist T",
      descriptionTag |-> TRUE, description |-> "Curator",
      artworkTag |-> TRUE, artwork |-> "https://img/p.jpg",
      serialized |-> "ok", artistNames |-> <<"Listed Artist">>,
      jsonLd |-> "ok", track |-> <<FullEntry>> ]

PlaylistPages ==
    { FullPlaylistPage,
      [FullPlaylistPage EXCEPT !.titleTag = FALSE],
      [FullPlaylistPage EXCEPT !.title = UNDEFINED],
      [FullPlaylistPage EXCEPT !.descriptionTag = FALSE],
      [FullPlaylistPage EXCEPT !.description = UNDEFINED],
      [FullPlaylistPage EXCEPT !.artworkTag = FALSE],
      [FullPlaylistPage EXCEPT !.artwork = UNDEFINED],
      [FullPlaylistPage EXCEPT !.serialized = "absent", !.artistNames = <<>>],
      [FullPlaylistPage EXCEPT !.serialized = "bad", !.artistNames = <<>>],
      [FullPlaylistPage EXCEPT !.artistNames = <<UNDEFINED>>],
      [FullPlaylistPage EXCEPT !.jsonLd = "absent", !.track = <<>>],
      [FullPlaylistPage EXCEPT !.jsonLd = "badJson", !.track = <<>>],
      [FullPlaylistPage EXCEPT !.jsonLd = "null", !.track = <<>>],
      [FullPlaylistPage EXCEPT !.jsonLd = "noTrack", !.track = <<>>],
      [FullPlaylistPage EXCEPT !.track = <<>>] }
    \cup { [FullPlaylistPage EXCEPT !.track = <<e>>, !.artistNames = <<>>] : e \in Entries }
    \cup { [FullPlaylistPage EXCEPT !.track = <<FullEntry, e>>] : e \in Entries }

\* artistNames[index] || track.byArtist?.name || "Unknown Artist", 0-based index
PlaylistArtist(page, index) ==
    Or(Or(IF page.serialized = "ok" /\ index + 1 <= Len(page.artistNames)
          THEN page.artistNames[index + 1] ELSE UNDEFINED,
          page.track[index + 1].byArtist),
       "Unknown Artist")

PlaylistTrack(page, index) ==
    LET track == page.track[index + 1]
    IN  [ id |-> Or(Str(Pop(Split(track.url, L_slash))), ""),
          title |-> Or(track.name, "Unknown Title"),
          artist |-> PlaylistArtist(page, index),
          duration |-> Str(parseDuration(IF track.duration = <<>> THEN L_PT0S
                                         ELSE track.duration)),
          url |-> Or(Str(track.url), ""),
          thumbnail |-> Favicon ]

\* await getHTML, JSON.parse(jsonLdElement.text) and track.url!.split are
\* outside any try block
PlaylistInfo(link, html, page) ==
    IF html = "rejected" THEN Result(TRUE, TRUE, Null)
    ELSE IF html = "null" THEN Result(TRUE, FALSE, Null)
    ELSE IF page.jsonLd = "badJson" THEN Result(TRUE, TRUE, Null)
    ELSE IF page.jsonLd = "ok" /\ \E k \in 1..Len(page.track) : ~page.track[k].urlDefined
    THEN Result(TRUE, TRUE, Null)
    ELSE Result(TRUE, FALSE,
                Collection(Or(IF page.titleTag THEN page.title ELSE "Unknown Title",
                              "Unknown Album"),
                           IF page.descriptionTag THEN page.description ELSE "No Description",
                           Or(IF page.artworkTag THEN page.artwork ELSE "", Favicon),
                           Str(link), UNDEFINED, UNDEFINED,
                           IF page.jsonLd = "ok"
                           THEN [k \in 1..Len(page.track) |-> PlaylistTrack(page, k - 1)]
                           ELSE <<>>))

getPlaylistInfo(link, net, page) == PlaylistInfo(link, getHTML(net), page)

(***************************************************************************)
(* AppleMusic.getAlbumInfo.  An album page: the apple:title, og:image and  *)
(* apple:content_id tags, and jsonLd (the script#schema:music-album:       *)
(* "absent", "badJson", "null", "ok") with byArtist ("undefined", "empty"  *)
(* for [], or "ok" with artistName, UNDEFINED when the first artist has no *)
(* name), tracksDefined and its track entries.                             *)
(***************************************************************************)
FullAlbumPage ==
    [ titleTag |-> TRUE, title |-> "Album T",
      artworkTag |-> TRUE, artwork |-> "https://img/al.jpg",
      contentId |-> "99",
      jsonLd |-> "ok", byArtist |-> "ok", artistName |-> "Artist X",
      tracksDefined |-> TRUE, tracks |-> <<FullEntry>> ]

AlbumPages ==
    { FullAlbumPage,
      [FullAlbumPage EXCEPT !.titleTag = FALSE],
      [FullAlbumPage EXCEPT !.title = UNDEFINED],
      [FullAlbumPage EXCEPT !.artworkTag = FALSE],
      [FullAlbumPage EXCEPT !.artwork = UNDEFINED],
      [FullAlbumPage EXCEPT !.contentId = UNDEFINED],
      [FullAlbumPage EXCEPT !.jsonLd = "absent", !.tracks = <<>>],
      [FullAlbumPage EXCEPT !.jsonLd = "badJson", !.tracks = <<>>],
      [FullAlbumPage EXCEPT !.jsonLd = "null", !.tracks = <<>>],
      [FullAlbumPage EXCEPT !.byArtist = "undefined"],
      [FullAlbumPage EXCEPT !.byArtist = "empty"],
      [FullAlbumPage EXCEPT !.artistName = UNDEFINED],
      [FullAlbumPage EXCEPT !.tracksDefined = FALSE, !.tracks = <<>>],
      [FullAlbumPage EXCEPT !.tracks = <<>>],
      [FullAlbumPage EXCEPT !.tracks = <<FullEntry, FullEntry, FullEntry>>] }
    \cup { [FullAlbumPage EXCEPT !.tracks = <<e>>] : e \in Entries }
    \cup { [FullAlbumPage EXCEPT !.tracks = <<FullEntry, e>>] : e \in Entries }

AlbumThumbnail(page) ==
    IF page.artworkTag THEN page.artwork ELSE Favicon

AlbumTrack(page, track) ==
    [ id |-> Or(Str(Pop(Split(track.url, L_slash))), ""),
      duration |-> Str(parseDuration(IF track.duration = <<>> THEN L_PT0S ELSE track.duration)),
      title |-> Or(track.name, "Unknown Title"),
      url |-> Or(Str(track.url), ""),
      thumbnail |-> Or(AlbumThumbnail(page), Favicon),
      artist |-> page.artistName ]

\* what throws inside try { } catch { return null }
AlbumThrows(page) ==
    \/ page.jsonLd \in {"badJson", "null"}
    \/ page.jsonLd = "ok" /\ page.byArtist \in {"undefined", "empty"}
    \/ page.jsonLd = "ok" /\ \E k \in 1..Len(page.tracks) : ~page.tracks[k].urlDefined

AlbumCollection(link, page, title, artistName) ==
    Collection(Or(title, "Unknown Album"), title, Or(AlbumThumbnail(page), Favicon),
               Str(link), artistName, Or(page.contentId, ""),
               IF page.jsonLd = "ok" /\ page.tracksDefined
               THEN [k \in 1..Len(page.tracks) |-> AlbumTrack(page, page.tracks[k])]
               ELSE <<>>)

\* the body of getAlbumInfo; html is what getHTML(link.split("?")[0]) gives
AlbumInfo(link, html, page) ==
    IF html = "rejected" THEN Result(TRUE, TRUE, Null)
    ELSE IF html = "null" THEN Result(TRUE, FALSE, Null)
    ELSE IF AlbumThrows(page) THEN Result(TRUE, FALSE, Null)
    ELSE Result(TRUE, FALSE,
                AlbumCollection(link, page,
                                IF page.titleTag THEN page.title ELSE "Unknown Album",
                                IF page.jsonLd = "ok" THEN page.artistName
                                ELSE "Unknown Artist"))

getAlbumInfo(link, net, page) == AlbumInfo(link, getHTML(net), page)

(***************************************************************************)
(* AppleMusicExtractor: buildTrack, buildPlaylist, handle, activate,       *)
(* deactivate and stream.                                                  *)
(***************************************************************************)
buildTrack(trackInfo) ==
    [ author |-> trackInfo.artist,
      description |-> trackInfo.title,
      duration |-> trackInfo.duration,
      thumbnail |-> trackInfo.thumbnail,
      title |-> trackInfo.title,
      url |-> trackInfo.url,
      source |-> "apple_music",
      metadata |-> trackInfo ]

\* the Playlist fields; author is author.name
buildPlaylist(data, type) ==
    [ author |-> IF type = "album" THEN data.artist ELSE data.description,
      description |-> Or(data.description, data.title),
      id |-> Or(data.id, ""),
      thumbnail |-> data.artwork,
      title |-> data.title,
      url |-> Or(data.url, "") ]

NoPlaylist ==
    [ author |-> UNDEFINED, description |-> UNDEFINED, id |-> UNDEFINED,
      thumbnail |-> UNDEFINED, title |-> UNDEFINED, url |-> UNDEFINED ]

\* createResponse(playlist, tracks); text is the playlist type, "" for null
Response(type, playlist, list) ==
    [kind |-> "response", text |-> type, tracks |-> list, info |-> playlist]

EmptyResponse == Response("", NoPlaylist, <<>>)

\* faulty variant: the playlist test is missing, playlist links fall through to search
handleTargetNoPlaylist(query) ==
    IF appleMusicSongRegex(query) THEN "getSongInfo"
    ELSE IF appleMusicAlbumRegex(query) THEN "getAlbumInfo"
    ELSE "search"

\* the first test of handle that succeeds names the extractor it calls
handleTarget(query) ==
    IF appleMusicSongRegex(query) THEN "getSongInfo"
    ELSE IF appleMusicAlbumRegex(query) THEN "getAlbumInfo"
    ELSE IF appleMusicPlaylistRegex(query) THEN "getPlaylistInfo"
    ELSE "search"

\* the pages the storefront answers the fetch of handle's extractor with: for
\* each extractor a missing, an empty, a malformed and a full page (the
\* extractors' own actions go through every page)
PagesOf(target) ==
    CASE target = "getSongInfo" ->
            {FullSongPage, NoDurationPage, [FullSongPage EXCEPT !.metaTags = FALSE]}
      [] target = "getAlbumInfo" ->
            {FullAlbumPage, [FullAlbumPage EXCEPT !.tracks = <<>>],
             [FullAlbumPage EXCEPT !.jsonLd = "badJson", !.tracks = <<>>]}
      [] target = "getPlaylistInfo" ->
            {FullPlaylistPage, [FullPlaylistPage EXCEPT !.track = <<>>],
             [FullPlaylistPage EXCEPT !.jsonLd = "badJson", !.track = <<>>]}
      [] OTHER ->
            {[serialized |-> "items", items |-> <<FullItem>>],
             [serialized |-> "items", items |-> <<>>],
             [serialized |-> "badJson", items |-> <<>>]}

Handled(cs, t, v) == [calls |-> cs, threw |-> t, ret |-> v]

BuildTracks(list) == [k \in 1..Len(list) |-> buildTrack(list[k])]

\* if (!info) return this.createResponse(); return this.createResponse(...)
SongResponse(target, info) ==
    IF info.threw THEN Handled(<<target>>, TRUE, EmptyResponse)
    ELSE IF info.ret.kind = "null" THEN Handled(<<target>>, FALSE, EmptyResponse)
    ELSE Handled(<<target>>, FALSE, Response("", NoPlaylist, BuildTracks(info.ret.tracks)))

CollectionResponse(target, info, type) ==
    IF info.threw THEN Handled(<<target>>, TRUE, EmptyResponse)
    ELSE IF info.ret.kind = "null" THEN Handled(<<target>>, FALSE, EmptyResponse)
    ELSE Handled(<<target>>, FALSE,
                 Response(type, buildPlaylist(info.ret.info, type),
                          BuildTracks(info.ret.tracks)))

\* if (!data?.length) return this.createResponse()
SearchResponse(target, data) ==
    IF Len(data.tracks) = 0 THEN Handled(<<target>>, FALSE, EmptyResponse)
    ELSE Handled(<<target>>, FALSE, Response("", NoPlaylist, BuildTracks(data.tracks)))

\* the branch of handle that calls the extractor target
handle(target, query, net, page) ==
    IF target = "getSongInfo"
    THEN SongResponse(target, getSongInfo(query, net, page))
    ELSE IF target = "getAlbumInfo"
    THEN CollectionResponse(target, getAlbumInfo(query, net, page), "album")
    ELSE IF target = "getPlaylistInfo"
    THEN CollectionResponse(target, getPlaylistInfo(query, net, page), "playlist")
    ELSE SearchResponse(target, search(net, page))

\* faulty variant: the configured function is never installed
activateNever(stream, opts) == stream

\* activate: this._stream is assigned only when options.createStream is a function
activate(stream, opts) ==
    IF opts.createStream = "function" THEN "function" ELSE stream

\* what createStream may resolve to or do, and what requestBridge may resolve to
FnOutcomes == {"readable", "url", "rejects"}

BridgeOutcomes == {"null", "noResult", "emptyResult", "readable", "url"}

\* !result?.result
Unusable(bridge) == bridge \in {"null", "noResult", "emptyResult"}

Plain(kind, text) == [kind |-> kind, text |-> text, tracks |-> <<>>, info |-> NoInfo]

stream(streamField, fn, bridge) ==
    IF streamField # "unset"
    THEN Handled(<<"createStream">>, fn = "rejects",
                 IF fn = "rejects" THEN Plain("none", "") ELSE Plain("streamable", fn))
    ELSE Handled(<<"requestBridge">>, Unusable(bridge),
                 IF Unusable(bridge) THEN Plain("error", "Could not bridge this track")
                 ELSE Plain("streamable", bridge))

(***************************************************************************)
(* State machine.  One call is in progress at a time: an operation runs    *)
(* from "idle" to "done" and leaves what it was called with (arg), the     *)
(* collaborators it invoked (calls), whether it threw or rejected (threw)  *)
(* and what it returned (ret); Return hands the result to the caller.      *)
(* streamFn is the field _stream, options the options the extractor was    *)
(* constructed with; activated is a history variable: activate has run.    *)
(***************************************************************************)
NoRet == Plain("none", "")

SongLinks == {q \in Queries : appleMusicSongRegex(q)}

AlbumLinks == {q \in Queries : appleMusicAlbumRegex(q)}

PlaylistLinks == {q \in Queries : appleMusicPlaylistRegex(q)}

SearchTerms == {Concat(<<k, sl>>) : k \in Kinds, sl \in Slugs}

Init ==
    /\ pc = "idle"
    /\ op = "none"
    /\ arg = <<>>
    /\ calls = <<>>
    /\ threw = FALSE
    /\ ret = NoRet
    /\ streamFn = "unset"
    /\ protocols = {}
    /\ options \in {[createStream |-> "function"], [createStream |-> "undefined"]}
    /\ activated = FALSE

Finish(name, a, h) ==
    /\ pc' = "done"
    /\ op' = name
    /\ arg' = a
    /\ calls' = h.calls
    /\ threw' = h.threw
    /\ ret' = h.ret

Done(name, a, cs, t, v) ==
    /\ pc' = "done"
    /\ op' = name
    /\ arg' = a
    /\ calls' = cs
    /\ threw' = t
    /\ ret' = v

Return ==
    /\ pc = "done"
    /\ pc' = "idle"
    /\ op' = "none"
    /\ arg' = <<>>
    /\ calls' = <<>>
    /\ threw' = FALSE
    /\ ret' = NoRet
    /\ UNCHANGED <<streamFn, protocols, options, activated>>

Validate ==
    /\ pc = "idle"
    /\ \E query \in Queries :
        /\ Done("validate", query, <<>>, FALSE,
                Plain("boolean", IF validate(query) THEN "true" ELSE "false"))
        /\ UNCHANGED <<streamFn, protocols, options, activated>>

ParseDuration ==
    /\ pc = "idle"
    /\ \E d \in Durations :
        /\ Done("parseDuration", d, <<>>, FALSE, Plain("string", Str(parseDuration(d))))
        /\ UNCHANGED <<streamFn, protocols, options, activated>>

\* arg keeps what the network and the parser did
Fetched(html) ==
    Handled(<<"fetch">>, html = "rejected", Plain(IF html = "tree" THEN "tree" ELSE "null", ""))

GetHTML ==
    /\ pc = "idle"
    /\ \E net \in Nets :
        /\ Finish("getHTML", net, Fetched(getHTML(net)))
        /\ UNCHANGED <<streamFn, protocols, options, activated>>

\* for the extractors arg keeps the input, the network outcome and the page
Search ==
    /\ pc = "idle"
    /\ \E query \in SearchTerms, net \in Nets, page \in SearchPages :
        /\ Done("search", [input |-> query, net |-> net, page |-> page], <<"getHTML">>, FALSE,
                search(net, page))
        /\ UNCHANGED <<streamFn, protocols, options, activated>>

Extract(name, link, net, page, res) ==
    /\ Finish(name, [input |-> link, net |-> net, page |-> page],
              Handled(IF res.fetched THEN <<"getHTML">> ELSE <<>>, res.threw, res.ret))
    /\ UNCHANGED <<streamFn, protocols, options, activated>>

GetSongInfo ==
    /\ pc = "idle"
    /\ \E link \in SongLinks, net \in Nets, page \in SongPages :
        Extract("getSongInfo", link, net, page, getSongInfo(link, net, page))

GetAlbumInfo ==
    /\ pc = "idle"
    /\ \E link \in AlbumLinks, net \in Nets, page \in AlbumPages :
        Extract("getAlbumInfo", link, net, page, getAlbumInfo(link, net, page))

GetPlaylistInfo ==
    /\ pc = "idle"
    /\ \E link \in PlaylistLinks, net \in Nets, page \in PlaylistPages :
        Extract("getPlaylistInfo", link, net, page, getPlaylistInfo(link, net, page))

Handle ==
    /\ pc = "idle"
    /\ \E query \in Queries :
        LET target == handleTarget(query)
        IN  \E net \in Nets, page \in PagesOf(target) :
                /\ Finish("handle", query, handle(target, query, net, page))
                /\ UNCHANGED <<streamFn, protocols, options, activated>>

Activate ==
    /\ pc = "idle"
    /\ Done("activate", <<>>, <<>>, FALSE, Plain("void", ""))
    /\ protocols' = {"amsearch", "applemusic"}
    /\ streamFn' = activate(streamFn, options)
    /\ activated' = TRUE
    /\ UNCHANGED options

Deactivate ==
    /\ pc = "idle"
    /\ Done("deactivate", <<>>, <<>>, FALSE, Plain("void", ""))
    /\ protocols' = {}
    /\ UNCHANGED <<streamFn, options, activated>>

\* arg keeps what createStream and the bridge would answer
Stream ==
    /\ pc = "idle"
    /\ \E fn \in FnOutcomes, bridge \in BridgeOutcomes :
        /\ Finish("stream", [fn |-> fn, bridge |-> bridge], stream(streamFn, fn, bridge))
        /\ UNCHANGED <<streamFn, protocols, options, activated>>

Next ==
    \/ Validate
    \/ ParseDuration
    \/ GetHTML
    \/ Search
    \/ GetSongInfo
    \/ GetAlbumInfo
    \/ GetPlaylistInfo
    \/ Handle
    \/ Activate
    \/ Deactivate
    \/ Stream
    \/ Return

Spec == Init /\ [][Next]_vars

(***************************************************************************)
(* Claims.                                                                 *)
(***************************************************************************)
Called(name) == pc = "done" /\ op = name

PatternsMatching(query) ==
    {k \in {"song", "album", "playlist"} :
        \/ k = "song" /\ appleMusicSongRegex(query)
        \/ k = "album" /\ appleMusicAlbumRegex(query)
        \/ k = "playlist" /\ appleMusicPlaylistRegex(query)}

StoreOrigin == L_http \o L_s \o L_host \o <<"u", "s">>

AlbumLinkExample == StoreOrigin \o L_slash \o L_album \o <<"/", "x", "/", "1">>

SongLinkExample == StoreOrigin \o L_slash \o L_album \o <<"/", "x", "/", "1", "?", "i", "=", "1">>

FreeTextExample == <<"u", "s", "/", "x">>

PlaylistNoPrefixExample == StoreOrigin \o L_slash \o L_playlist \o <<"/", "x", "/", "a">>

\* C1: the three link patterns are mutually exclusive: at most one of the
\* song, album and playlist patterns matches a candidate, and an album link
\* with a trailing numeric identifier and no ?i= parameter matches the album
\* pattern and not the song pattern.
C1_PatternsExclusive ==
    Called("validate") =>
        /\ Cardinality(PatternsMatching(arg)) <= 1
        /\ arg = AlbumLinkExample => PatternsMatching(arg) = {"album"}

\* C2: every call of handle invokes exactly one extractor, the first of
\* song, album, playlist whose pattern matches the query and search when none
\* does; once a pattern has matched search is not invoked, whatever the
\* extractor returns; a playlist-shaped link always goes to the playlist
\* extractor.
C2_Dispatch ==
    Called("handle") =>
        /\ Len(calls) = 1
        /\ appleMusicSongRegex(arg) => calls[1] = "getSongInfo"
        /\ ~appleMusicSongRegex(arg) /\ appleMusicAlbumRegex(arg) => calls[1] = "getAlbumInfo"
        /\ PatternsMatching(arg) = {"playlist"} => calls[1] = "getPlaylistInfo"
        /\ appleMusicPlaylistRegex(arg) => calls = <<"getPlaylistInfo">>
        /\ (calls[1] = "search") <=> (PatternsMatching(arg) = {})

\* a playlist link whose extractor returned a collection with no track
C2_Witness ==
    /\ Called("handle")
    /\ appleMusicPlaylistRegex(arg)
    /\ calls = <<"getPlaylistInfo">>
    /\ ~threw
    /\ ret.text = "playlist"
    /\ ret.tracks = <<>>

\* C3: handle called with a query that fails validation returns an
\* empty response and invokes no extractor.
C3_RejectsInvalid ==
    Called("handle") /\ ~validate(arg) =>
        /\ calls = <<>>
        /\ ret = EmptyResponse

\* the whole string is a duration of the grammar [-]P[nY][nM][nW][nD][T[nH][nM][nS]]
\* with at least one unit
WellFormedDuration(d) ==
    /\ DurationExec(d).matched
    /\ DurationExec(d).start = 1
    /\ DurationExec(d).end = Len(d) + 1
    /\ \E k \in 1..Len(DurationExec(d).groups) : DurationExec(d).groups[k] # <<>>

\* the rendering of the seven units: every unit from the first present one
\* through seconds and at least minutes and seconds, an absent unit as 0, the
\* first unpadded and the later ones padded to width 2, joined with ":"
Rendering(groups) ==
    LET present == {k \in 1..Len(groups) : groups[k] # <<>>} \cup {Len(groups) - 1}
        first == CHOOSE k \in present : \A j \in present : k <= j
        units == [k \in 1..(Len(groups) - first + 1) |->
                    LET m == IF groups[first + k - 1] = <<>> THEN <<"0">>
                             ELSE groups[first + k - 1]
                    IN  IF k = 1 \/ Len(m) >= 2 THEN m ELSE <<"0">> \o m]
    IN  Str(Join(units, <<":">>))

\* C4: the normaliser renders every unit from the first present unit through
\* seconds, at least minutes and seconds, absent units as 0, the first
\* unpadded and the rest padded to width 2, joined with ":"; a bare seconds
\* value is never a standalone number.
C4_Rendering ==
    Called("parseDuration") /\ WellFormedDuration(arg) =>
        /\ ret.text = Rendering(DurationExec(arg).groups)
        /\ arg = <<"P", "T", "5", "S">> => ret.text = "0:05"
        /\ arg = <<"P", "T", "0", "S">> => ret.text = "0:00"

\* C5: the normaliser never throws and gives exactly "0:00" for every input
\* that is not a well-formed duration, strings that merely contain a P and
\* the bare "P" included.
C5_DefaultOnMalformed ==
    Called("parseDuration") =>
        /\ ~threw
        /\ ~WellFormedDuration(arg) => ret.text = "0:00"

Extractors == {"search", "getSongInfo", "getAlbumInfo", "getPlaylistInfo"}

\* C6: no extractor propagates an exception: on a fetch failure and on
\* absent or malformed structured data each call completes with null, an
\* empty list or a record.  The page parser is taken to return here: what
\* the fetcher does when it throws is the subject of C7.
C6_ExtractorsNeverThrow ==
    pc = "done" /\ op \in Extractors /\ arg.net.parse = "returns" => ~threw

\* C7: the page fetcher never rejects: its result is null when the request,
\* reading the body or parsing the body fails, and the document tree
\* otherwise.
C7_FetcherNeverRejects ==
    Called("getHTML") =>
        /\ ~threw
        /\ (ret.kind = "tree") <=>
               (arg.fetch = "fulfils" /\ arg.text = "fulfils" /\ arg.parse = "returns")
        /\ ret.kind \in {"tree", "null"}

TrackFields == {"id", "title", "artist", "duration", "thumbnail", "url"}

\* C8: every track record an extractor returns has its six fields populated
\* with a string, whatever the page or the JSON item omits.
C8_TracksPopulated ==
    pc = "done" /\ op \in Extractors /\ ~threw =>
        \A k \in 1..Len(ret.tracks) : \A f \in TrackFields :
            ret.tracks[k][f] \notin {UNDEFINED, NULL}

\* C9: in any sequence of activate, deactivate and stream: when a
\* createStream function was configured at activation, stream invokes it once,
\* returns its result and does not call the bridge; when none was configured,
\* stream requests the bridge once and raises exactly when the bridge yields
\* no usable result.
C9_Stream ==
    Called("stream") =>
        /\ activated /\ options.createStream = "function" =>
               /\ calls = <<"createStream">>
               /\ arg.fn # "rejects" => ~threw /\ ret.kind = "streamable" /\ ret.text = arg.fn
        /\ options.createStream # "function" =>
               /\ calls = <<"requestBridge">>
               /\ threw <=> arg.bridge \in {"null", "noResult", "emptyResult"}
               /\ ~threw => ret.kind = "streamable" /\ ret.text = arg.bridge

\* stream after activate and deactivate still goes to the configured function
C9_Witness ==
    /\ Called("stream")
    /\ activated
    /\ protocols = {}
    /\ options.createStream = "function"
    /\ calls = <<"createStream">>
    /\ ret.text = "url"

\* C10: validate is true exactly for the queries that are not URL-shaped or
\* match one of the three link patterns: a song link with a numeric id and
\* ?i= validates, a playlist link without the pl. prefix does not, and every
\* string that is no URL validates.
C10_Validate ==
    Called("validate") =>
        /\ (ret.text = "true") <=> (~isUrl(arg) \/ PatternsMatching(arg) # {})
        /\ ret.text \in {"true", "false"}
        /\ arg = SongLinkExample => ret.text = "true"
        /\ arg = PlaylistNoPrefixExample => ret.text = "false"
        /\ arg = FreeTextExample => ~isUrl(arg) /\ ret.text = "true"
        /\ ~isUrl(arg) => ret.text = "true"

\* a playlist link without the pl. prefix was refused
C10_Witness ==
    /\ Called("validate")
    /\ arg = PlaylistNoPrefixExample
    /\ ret.text = "false"


\* the duration the fallback order gives for a song page: the structured
\* duration through the normaliser, else the text after "Duration: " in the
\* description (up to the closing quote), else "0:00"
FallbackDuration(page) ==
    IF page.durationRaw # <<>> THEN Str(parseDuration(page.durationRaw))
    ELSE IF page.descriptionTag /\ Includes(page.description, L_duration)
    THEN Or(Str(Split(Split(page.description, L_duration)[2], <<"\"">>)[1]), "0:00")
    ELSE "0:00"

\* getSongInfo fetched the page and the page has a meta tag
SongPageFetched ==
    /\ Called("getSongInfo")
    /\ calls = <<"getHTML">>
    /\ arg.net = [fetch |-> "fulfils", text |-> "fulfils", parse |-> "returns"]
    /\ arg.page.metaTags

\* C11: when the song extractor fetches a page with at least one meta tag it
\* returns a track record whose duration follows the fallback order
\* structured duration tag, "Duration: " fragment of the description, "0:00";
\* a page with no structured duration and a description without the fragment
\* (or no description tag) gives a record with duration "0:00", not null.
C11_DurationFallback ==
    SongPageFetched =>
        /\ ~threw
        /\ ret.kind = "track"
        /\ Len(ret.tracks) = 1
        /\ ret.tracks[1].duration = FallbackDuration(arg.page)

====
